---- MODULE Spec2Model ----
(***************************************************************************)
(* Model of the ralph-loop stop hook                                       *)
(* (plugins/ralph-loop/hooks/stop-hook.sh).                                *)
(*                                                                         *)
(* Text is modelled character by character: a string is a sequence of      *)
(* one-character strings, a file or a pipe is a sequence of lines.  Every  *)
(* sed / grep / awk / tr stage of the script is an operator on such        *)
(* sequences, and the whole script is the operator Hook, applied by the    *)
(* action Invoke to the state file, the hook payload and the transcript.   *)
(***************************************************************************)
EXTENDS Integers, Sequences, FiniteSets, TLC

(***************************************************************************)
(* Generic text helpers (the semantics of the shell tools used).           *)
(***************************************************************************)

NL == "\n"

\* pattern p occurs in s at position i
MatchAt(s, p, i) ==
    /\ i >= 1
    /\ i + Len(p) - 1 <= Len(s)
    /\ \A j \in 1..Len(p) : s[i + j - 1] = p[j]

StartsWith(s, p) == MatchAt(s, p, 1)

\* the positions of s at which p occurs
Occurrences(s, p) ==
    {i \in 1..(Len(s) - Len(p) + 1) : \A j \in 1..Len(p) : s[i + j - 1] = p[j]}

Contains(s, p) == Occurrences(s, p) # {}

\* least / greatest element of a set of positions, 0 when it is empty
MinPos(S) == IF S = {} THEN 0 ELSE CHOOSE x \in S : \A y \in S : x <= y

MaxPos(S) == IF S = {} THEN 0 ELSE CHOOSE x \in S : \A y \in S : y <= x

\* position of the first / last occurrence of p in s, 0 when there is none
FirstIndex(s, p) == MinPos(Occurrences(s, p))

LastIndex(s, p) == MaxPos(Occurrences(s, p))

\* sed 's/p/r/g' on one line, p a literal: left to right, non-overlapping
RECURSIVE ReplaceAll(_, _, _)
ReplaceAll(s, p, r) ==
    LET k == FirstIndex(s, p)
    IN  IF k = 0 THEN s
        ELSE SubSeq(s, 1, k - 1) \o r
               \o ReplaceAll(SubSeq(s, k + Len(p), Len(s)), p, r)

\* tr -d / ${var//c/}: delete every character of the set cs
DeleteChars(s, cs) == SelectSeq(s, LAMBDA c : c \notin cs)

\* the lines of a pipe written as one string, NL between the lines
RECURSIVE JoinLines(_)
JoinLines(ls) ==
    IF ls = <<>> THEN <<>>
    ELSE IF Len(ls) = 1 THEN ls[1]
         ELSE ls[1] \o <<NL>> \o JoinLines(Tail(ls))

\* the lines a tool reads from a string that ends with a newline
RECURSIVE SplitLines(_)
SplitLines(s) ==
    LET k == FirstIndex(s, <<NL>>)
    IN  IF k = 0 THEN <<s>>
        ELSE <<SubSeq(s, 1, k - 1)>> \o SplitLines(SubSeq(s, k + 1, Len(s)))

\* $( ... ): the output of the pipe with all trailing newlines removed
StripTrailingNL(s) ==
    LET k == CHOOSE i \in 0..Len(s) :
                /\ i = 0 \/ s[i] # NL
                /\ \A j \in (i + 1)..Len(s) : s[j] = NL
    IN  SubSeq(s, 1, k)

\* VAR=$(cmd) where cmd printed the lines ls (each followed by a newline)
CmdSubst(ls) ==
    IF ls = <<>> THEN <<>> ELSE StripTrailingNL(JoinLines(ls) \o <<NL>>)

\* echo "$VAR" | ... : the lines the next stage reads
Echo(s) == SplitLines(s)

\* apply a per-line sed script f to every line of a pipe; a line in which
\* the script inserted newlines is read as several lines by the next stage
RECURSIVE Resplit(_)
Resplit(ls) ==
    IF ls = <<>> THEN <<>> ELSE SplitLines(ls[1]) \o Resplit(Tail(ls))

Digits == {"0", "1", "2", "3", "4", "5", "6", "7", "8", "9"}

Space == {" ", "\t", NL, "\r", "\f"}

DigitVal(c) ==
    CASE c = "0" -> 0 [] c = "1" -> 1 [] c = "2" -> 2 [] c = "3" -> 3
      [] c = "4" -> 4 [] c = "5" -> 5 [] c = "6" -> 6 [] c = "7" -> 7
      [] c = "8" -> 8 [] c = "9" -> 9

DigitChar(d) ==
    CASE d = 0 -> "0" [] d = 1 -> "1" [] d = 2 -> "2" [] d = 3 -> "3"
      [] d = 4 -> "4" [] d = 5 -> "5" [] d = 6 -> "6" [] d = 7 -> "7"
      [] d = 8 -> "8" [] d = 9 -> "9"

\* value of a digit string read in the given base
RECURSIVE BaseVal(_, _)
BaseVal(s, base) ==
    IF s = <<>> THEN 0
    ELSE BaseVal(SubSeq(s, 1, Len(s) - 1), base) * base + DigitVal(s[Len(s)])

\* $((n)) printed: the decimal digits of a natural number
RECURSIVE ToDecimal(_)
ToDecimal(n) ==
    IF n < 10 THEN <<DigitChar(n)>>
    ELSE ToDecimal(n \div 10) \o <<DigitChar(n % 10)>>


(***************************************************************************)
(* State Store: the state record .claude/ralph-loop.local.md               *)
(***************************************************************************)

Delim == <<"-","-","-">>

KeyIteration == <<"i","t","e","r","a","t","i","o","n",":">>

KeyMaxIterations == <<"m","a","x","_","i","t","e","r","a","t","i","o","n","s",":">>

KeyCompletionPromise == <<"c","o","m","p","l","e","t","i","o","n","_","p","r","o","m","i","s","e",":">>

Null == <<"n","u","l","l">>

\* sed -n '/^---$/,/^---$/{ /^---$/d; p; }' : print the lines inside every
\* range that a '---' line opens and the next '---' line closes; a range
\* opens again at each later '---' line
RECURSIVE SedRange(_, _)
SedRange(lines, inRange) ==
    IF lines = <<>> THEN <<>>
    ELSE IF Head(lines) = Delim
         THEN SedRange(Tail(lines), ~inRange)
         ELSE (IF inRange THEN <<Head(lines)>> ELSE <<>>)
                \o SedRange(Tail(lines), inRange)

\* FRONTMATTER=$(sed -n ... "$RALPH_STATE_FILE")
FRONTMATTER(lines) == CmdSubst(SedRange(lines, FALSE))

\* grep '^key' : the lines that start with key (exit status 1 when none)
Grep(ls, key) == SelectSeq(ls, LAMBDA l : StartsWith(l, key))

\* sed 's/key *//' : delete the first occurrence of key and the spaces after it
DropSpaces(s) ==
    LET k == CHOOSE i \in 1..(Len(s) + 1) :
                /\ i = Len(s) + 1 \/ s[i] # " "
                /\ \A j \in 1..(i - 1) : s[j] = " "
    IN  SubSeq(s, k, Len(s))

SedStripKey(l, key) ==
    LET k == FirstIndex(l, key)
    IN  IF k = 0 THEN l
        ELSE SubSeq(l, 1, k - 1) \o DropSpaces(SubSeq(l, k + Len(key), Len(l)))

\* sed 's/^"\(.*\)"$/\1/' : strip one layer of surrounding double quotes
SedStripQuotes(l) ==
    IF Len(l) >= 2 /\ l[1] = "\"" /\ l[Len(l)] = "\""
    THEN SubSeq(l, 2, Len(l) - 1)
    ELSE l

\* the pipelines of lines 25, 26 and 28, after the grep found a line
FieldValue(fm, key) ==
    LET ls == Grep(Echo(fm), key)
    IN  CmdSubst([i \in 1..Len(ls) |-> SedStripKey(ls[i], key)])

PromiseValue(fm) ==
    LET ls == Grep(Echo(fm), KeyCompletionPromise)
    IN  CmdSubst([i \in 1..Len(ls) |->
                    SedStripQuotes(SedStripKey(ls[i], KeyCompletionPromise))])

\* [[ "$X" =~ ^[0-9]+$ ]]
IsDigits(s) == s # <<>> /\ \A i \in 1..Len(s) : s[i] \in Digits

\* bash arithmetic on a digit string: a leading 0 selects base 8, in which
\* the digits 8 and 9 are an error ("value too great for base")
ArithOk(s) ==
    IF Len(s) > 1 /\ s[1] = "0"
    THEN \A i \in 1..Len(s) : s[i] \notin {"8", "9"}
    ELSE TRUE

ArithVal(s) ==
    IF Len(s) > 1 /\ s[1] = "0" THEN BaseVal(s, 8) ELSE BaseVal(s, 10)

\* [[ $MAX_ITERATIONS -gt 0 ]] && [[ $ITERATION -ge $MAX_ITERATIONS ]] ;
\* a [[ ]] whose operand is in error is false
CapCheck(it, max) ==
    /\ ArithOk(max) /\ ArithVal(max) > 0
    /\ ArithOk(it) /\ ArithVal(it) >= ArithVal(max)

\* awk '/^---$/{i++; next} i>=2' : every '---' line is counted and skipped,
\* the other lines are printed once two '---' lines have been seen
RECURSIVE AwkPrompt(_, _)
AwkPrompt(lines, i) ==
    IF lines = <<>> THEN <<>>
    ELSE IF Head(lines) = Delim
         THEN AwkPrompt(Tail(lines), i + 1)
         ELSE (IF i >= 2 THEN <<Head(lines)>> ELSE <<>>)
                \o AwkPrompt(Tail(lines), i)

\* PROMPT_TEXT=$(awk ... "$RALPH_STATE_FILE")
PROMPT_TEXT(lines) == CmdSubst(AwkPrompt(lines, 0))

\* sed "s/^iteration: .*/iteration: $NEXT_ITERATION/" on every line of the file
SedUpdateLine(l, next) ==
    IF StartsWith(l, KeyIteration \o <<" ">>)
    THEN KeyIteration \o <<" ">> \o next
    ELSE l

SedUpdate(lines, next) == [i \in 1..Len(lines) |-> SedUpdateLine(lines[i], next)]


(***************************************************************************)
(* Hook payload (stdin)                                                    *)
(***************************************************************************)

KeyTranscriptPath == <<"\"","t","r","a","n","s","c","r","i","p","t","_","p","a","t","h","\"">>

\* first position >= j of l that does not hold a [[:space:]] character
SkipSpace(l, j) ==
    CHOOSE k \in j..(Len(l) + 1) :
        /\ k = Len(l) + 1 \/ l[k] \notin Space
        /\ \A i \in j..(k - 1) : l[i] \in Space

\* first position >= j of l that holds the character c, 0 when there is none
FindChar(l, c, j) == MinPos({i \in j..Len(l) : l[i] = c})

\* end of a match of  "transcript_path"[[:space:]]*:[[:space:]]*"[^"]*"
\* that starts at position i of l: <<first, last>> of the value, or <<>>
PathMatchAt(l, i) ==
    IF ~MatchAt(l, KeyTranscriptPath, i) THEN <<>>
    ELSE LET c == SkipSpace(l, i + Len(KeyTranscriptPath))
         IN  IF ~(c <= Len(l) /\ l[c] = ":") THEN <<>>
             ELSE LET q == SkipSpace(l, c + 1)
                  IN  IF ~(q <= Len(l) /\ l[q] = "\"") THEN <<>>
                      ELSE LET e == FindChar(l, "\"", q + 1)
                           IN  IF e = 0 THEN <<>> ELSE <<q + 1, e - 1>>

\* grep -oE ... | sed 's/.*"[^"]*"[[:space:]]*:[[:space:]]*"\([^"]*\)".*/\1/'
\* on one line: the value of every match from position i on, one per line
RECURSIVE GrepPathLine(_, _)
GrepPathLine(l, i) ==
    LET k == MinPos({j \in Occurrences(l, KeyTranscriptPath) :
                       j >= i /\ PathMatchAt(l, j) # <<>>})
    IN  IF k = 0 THEN <<>>
        ELSE LET m == PathMatchAt(l, k)
             IN  <<SubSeq(l, m[1], m[2])>> \o GrepPathLine(l, m[2] + 2)

RECURSIVE GrepPath(_)
GrepPath(ls) ==
    IF ls = <<>> THEN <<>>
    ELSE GrepPathLine(Head(ls), 1) \o GrepPath(Tail(ls))

\* the values printed by the pipeline of line 61 (none: grep exits 1)
PathMatches(hookInput) == GrepPath(Echo(hookInput))

TRANSCRIPT_PATH(hookInput) == CmdSubst(PathMatches(hookInput))

(***************************************************************************)
(* Transcript Reader                                                       *)
(***************************************************************************)

RoleAssistant == <<"\"","r","o","l","e","\"",":","\"","a","s","s","i","s","t","a","n","t","\"">>

KeyContent == <<"\"","c","o","n","t","e","n","t","\"",":","[">>

KeyText == <<"\"","t","e","x","t","\"",":","\"">>

TextBlockNL == <<"{","\"","t","y","p","e","\"",":","\"","t","e","x","t","\"",",","\"","t","e","x","t","\"",":","\"","\\","n","\"">>

TextBlockSep == <<"}",",","{","\"","t","y","p","e","\"",":","\"","t","e","x","t","\"",",","\"","t","e","x","t","\"",":","\"">>

BackslashN == <<"\\","n">>

BackslashQuote == <<"\\","\"">>

\* grep '"role":"assistant"' "$TRANSCRIPT_PATH"
GrepAssistant(transcript) ==
    SelectSeq(transcript, LAMBDA l : Contains(l, RoleAssistant))

\* the selection with head -1 in the place of tail -1
LAST_LINE_Head(transcript) ==
    LET ls == GrepAssistant(transcript)
    IN  IF ls = <<>> THEN <<>> ELSE CmdSubst(<<ls[1]>>)

\* LAST_LINE=$(grep '"role":"assistant"' "$TRANSCRIPT_PATH" | tail -1)
LAST_LINE(transcript) ==
    LET ls == GrepAssistant(transcript)
    IN  IF ls = <<>> THEN <<>> ELSE CmdSubst(<<ls[Len(ls)]>>)

\* sed -n 's/.*"content":\[\(.*\)\].*/\1/p' : both .* are greedy, so the
\* capture runs from the last '"content":[' that has a ']' after it to the
\* last ']' of the line; a line without a match prints nothing
SedContent(l) ==
    LET r  == LastIndex(l, <<"]">>)
        ks == {k \in Occurrences(l, KeyContent) : k + Len(KeyContent) <= r}
    IN  IF ks = {} THEN <<>>
        ELSE LET k == CHOOSE x \in ks : \A y \in ks : y <= x
             IN  <<SubSeq(l, k + Len(KeyContent), r - 1)>>

RECURSIVE SedContentLines(_)
SedContentLines(ls) ==
    IF ls = <<>> THEN <<>>
    ELSE SedContent(Head(ls)) \o SedContentLines(Tail(ls))

\* sed 's/^"//;s/"$//'
SedTrimQuotes(l) ==
    LET a == IF l # <<>> /\ l[1] = "\"" THEN Tail(l) ELSE l
    IN  IF a # <<>> /\ a[Len(a)] = "\"" THEN SubSeq(a, 1, Len(a) - 1) ELSE a

\* sed 's/p/r/g' applied to every line of a pipe
SedSubstLines(ls, p, r) == [i \in 1..Len(ls) |-> ReplaceAll(ls[i], p, r)]

\* the pipeline of lines 102-107
ExtractPrimary(lastLine) ==
    LET s1 == SedContentLines(Echo(lastLine))
        s2 == SedSubstLines(s1, TextBlockNL, BackslashN)
        s3 == SedSubstLines(s2, TextBlockSep, BackslashN)
        s4 == SedSubstLines(s3, BackslashQuote, <<"\"">>)
        s5 == Resplit(SedSubstLines(s4, BackslashN, <<NL>>))
        s6 == [i \in 1..Len(s5) |-> SedTrimQuotes(s5[i])]
    IN  CmdSubst(s6)

\* grep -o '"text":"[^"]*"' on one line: every match from position i on
RECURSIVE GrepTextLine(_, _)
GrepTextLine(l, i) ==
    LET k == MinPos({j \in Occurrences(l, KeyText) :
                       j >= i /\ FindChar(l, "\"", j + Len(KeyText)) # 0})
    IN  IF k = 0 THEN <<>>
        ELSE LET e == FindChar(l, "\"", k + Len(KeyText))
             IN  <<SubSeq(l, k, e)>> \o GrepTextLine(l, e + 1)

RECURSIVE GrepText(_)
GrepText(ls) ==
    IF ls = <<>> THEN <<>>
    ELSE GrepTextLine(Head(ls), 1) \o GrepText(Tail(ls))

\* sed 's/"$//g'
SedDropLastQuote(l) ==
    IF l # <<>> /\ l[Len(l)] = "\"" THEN SubSeq(l, 1, Len(l) - 1) ELSE l

\* the fallback pipeline of lines 111-115; when grep finds nothing the
\* pipeline fails and '|| echo ""' prints an empty line
ExtractFallback(lastLine) ==
    LET g  == GrepText(Echo(lastLine))
        s1 == SedSubstLines(g, KeyText, <<>>)
        s2 == [i \in 1..Len(s1) |-> SedDropLastQuote(s1[i])]
        s3 == Resplit(SedSubstLines(s2, BackslashN, <<NL>>))
        s4 == SedSubstLines(s3, BackslashQuote, <<"\"">>)
    IN  IF g = <<>> THEN CmdSubst(<<<<>>>>) ELSE CmdSubst(s4)

\* LAST_OUTPUT after lines 102-116
LAST_OUTPUT(lastLine) ==
    LET primary == ExtractPrimary(lastLine)
    IN  IF primary # <<>> THEN primary ELSE ExtractFallback(lastLine)

(***************************************************************************)
(* Completion Detector                                                     *)
(***************************************************************************)

PromiseOpen == <<"<","p","r","o","m","i","s","e",">">>

PromiseClose == <<"<","/","p","r","o","m","i","s","e",">">>

\* echo "$LAST_OUTPUT" | tr '\n' ' ' : one unterminated line
TrNewlines(text) == ReplaceAll(text \o <<NL>>, <<NL>>, <<" ">>)

\* sed -n 's/.*<promise>\([^<]*\)<\/promise>.*/\1/p' : the leading .* is
\* greedy, so the capture is taken at the last '<promise>' whose run of
\* non-'<' characters is closed by '</promise>'
SedPromise(l) ==
    LET ok(k) == LET e == FindChar(l, "<", k + Len(PromiseOpen))
                 IN  e # 0 /\ MatchAt(l, PromiseClose, e)
        ks == {k \in Occurrences(l, PromiseOpen) : ok(k)}
    IN  IF ks = {} THEN <<>>
        ELSE LET k == CHOOSE x \in ks : \A y \in ks : y <= x
                 e == FindChar(l, "<", k + Len(PromiseOpen))
             IN  <<SubSeq(l, k + Len(PromiseOpen), e - 1)>>

\* PROMISE_TEXT of line 129
PROMISE_TEXT(lastOutput) ==
    LET ls == SedPromise(TrNewlines(lastOutput))
    IN  CmdSubst([i \in 1..Len(ls) |-> DeleteChars(ls[i], Space)])

\* [[ "$COMPLETION_PROMISE" != "null" ]] && [[ -n "$COMPLETION_PROMISE" ]]
PromiseSet(promise) == promise # Null /\ promise # <<>>

\* the test of line 132
PromiseMatches(lastOutput, promise) ==
    LET promiseText == PROMISE_TEXT(lastOutput)
    IN  promiseText # <<>> /\ promiseText = DeleteChars(promise, {" "})

(***************************************************************************)
(* Decision output                                                         *)
(***************************************************************************)

\* escape_json: backslashes first, then quotes, newlines, CR, tabs
escape_json(s) ==
    LET a == ReplaceAll(s, <<"\\">>, <<"\\","\\">>)
        b == ReplaceAll(a, <<"\"">>, <<"\\","\"">>)
        c == ReplaceAll(b, <<NL>>, <<"\\","n">>)
        d == ReplaceAll(c, <<"\r">>, <<"\\","r">>)
    IN  ReplaceAll(d, <<"\t">>, <<"\\","t">>)

\* the fixed wording of a message is carried as one unit of text: it holds
\* no character that escape_json rewrites
MsgIteration == <<"Ralph iteration ">>

MsgToStop == <<" | To stop: output <promise>">>

MsgOnlyWhen == <<"</promise> (ONLY when statement is TRUE - do not lie to exit!)">>

MsgNoPromise == <<" | No completion promise set - loop runs infinitely">>

\* SYSTEM_MSG of lines 167-171 (without the leading emoji)
SYSTEM_MSG(next, promise) ==
    IF PromiseSet(promise)
    THEN MsgIteration \o next \o MsgToStop \o promise \o MsgOnlyWhen
    ELSE MsgIteration \o next \o MsgNoPromise

JsonHead == <<"{","\"","d","e","c","i","s","i","o","n","\"",":","\"","b","l","o","c","k","\"",",","\"","r","e","a","s","o","n","\"",":","\"">>

JsonMid == <<"\"",",","\"","s","y","s","t","e","m","M","e","s","s","a","g","e","\"",":","\"">>

JsonTail == <<"\"","}">>

\* printf '{"decision":"block","reason":"%s","systemMessage":"%s"}\n'
BlockDecision(promptText, systemMsg) ==
    JsonHead \o escape_json(promptText) \o JsonMid \o escape_json(systemMsg) \o JsonTail

MsgCapHead == <<"Ralph loop: Max iterations (">>

MsgCapTail == <<") reached.">>

MsgDetected == <<"Ralph loop: Detected <promise>">>


(***************************************************************************)
(* Loop Controller: the script from its first to its last line             *)
(***************************************************************************)

Absent == [exists |-> FALSE, lines |-> <<>>]

\* what one run of the script leaves behind: exit status, the lines of
\* standard output, the diagnostics on the error stream, the state file,
\* and the place where the script ended
Result(exit, stdout, stderr, file, outcome) ==
    [exit |-> exit, stdout |-> stdout, stderr |-> stderr,
     file |-> file, outcome |-> outcome]

\* set -euo pipefail: a failed pipeline in an assignment, or the expansion
\* of an unset variable, ends the script with status 1 where it stands
Abort(file, stderr) == Result(1, <<>>, stderr, file, "Aborted")

\* diagnostics to the error stream; rm "$RALPH_STATE_FILE"; exit 0
Stop(stderr, outcome) == Result(0, <<>>, stderr, Absent, outcome)

ArithErr(s) == IF ArithOk(s) THEN <<>> ELSE <<"bash: value too great for base">>

\* lines 60-192, reached with validated ITERATION and MAX_ITERATIONS
HookTranscript(file, it, max, promise, hookInput, fs, err) ==
    IF PathMatches(hookInput) = <<>> THEN Abort(file, err)
    ELSE LET path == TRANSCRIPT_PATH(hookInput)
    IN  IF path = <<>>
        THEN Stop(err \o <<"No transcript path provided">>, "MissingTranscriptPath")
        ELSE IF path \notin DOMAIN fs
        THEN Stop(err \o <<"Transcript file not found">>, "TranscriptUnavailable")
        ELSE LET lastLine == LAST_LINE(fs[path])
        IN  IF ~\E i \in 1..Len(fs[path]) : Contains(fs[path][i], RoleAssistant)
        THEN Stop(err \o <<"No assistant messages found in transcript">>, "NoAssistantTurn")
        ELSE IF lastLine = <<>>
        THEN Stop(err \o <<"Failed to extract last assistant message">>, "NoAssistantTurn")
        ELSE LET out == LAST_OUTPUT(lastLine)
        IN  IF out = <<>>
            THEN Stop(err \o <<"Assistant message contained no text content">>, "NoAssistantText")
            ELSE IF PromiseSet(promise) /\ PromiseMatches(out, promise)
            THEN Result(0, Echo(MsgDetected \o promise \o PromiseClose), err,
                        Absent, "CompletionDetected")
            ELSE LET prompt == PROMPT_TEXT(file.lines)
                     err2   == err \o ArithErr(it)
            IN  IF prompt = <<>>
                THEN Stop(err2 \o <<"State file corrupted or incomplete: No prompt text found">>,
                          "CorruptState")
                ELSE IF ~ArithOk(it)
                THEN Abort(file, err2 \o <<"bash: NEXT_ITERATION: unbound variable">>)
                ELSE LET next == ToDecimal(ArithVal(it) + 1)
                     IN  Result(0,
                                <<BlockDecision(prompt, SYSTEM_MSG(next, promise))>>,
                                err2,
                                [exists |-> TRUE, lines |-> SedUpdate(file.lines, next)],
                                "Continuing")

\* a short-circuit that falls through to the cleanup of the terminal
\* paths: rm of a file that is not there fails and ends the script
NoLoopCleanup(file) == Abort(file, <<"rm: cannot remove state file">>)

\* lines 18-21: no state file, no active loop: exit 0 with nothing done
NoLoop(file) == Result(0, <<>>, <<>>, file, "NoLoop")

\* the whole script: state file, stdin and the files the path may name
Hook(file, hookInput, fs) ==
    IF ~file.exists THEN NoLoop(file)
    ELSE LET fm == FRONTMATTER(file.lines)
    IN  IF \/ Grep(Echo(fm), KeyIteration) = <<>>
           \/ Grep(Echo(fm), KeyMaxIterations) = <<>>
           \/ Grep(Echo(fm), KeyCompletionPromise) = <<>>
        THEN Abort(file, <<>>)
        ELSE LET it      == FieldValue(fm, KeyIteration)
                 max     == FieldValue(fm, KeyMaxIterations)
                 promise == PromiseValue(fm)
                 err     == IF ArithOk(max) /\ ArithVal(max) > 0
                            THEN ArithErr(it) ELSE ArithErr(max)
        IN  IF ~IsDigits(it)
            THEN Stop(<<"State file corrupted: 'iteration' field is not a valid number">>,
                      "CorruptState")
            ELSE IF ~IsDigits(max)
            THEN Stop(<<"State file corrupted: 'max_iterations' field is not a valid number">>,
                      "CorruptState")
            ELSE IF CapCheck(it, max)
            THEN Result(0, Echo(MsgCapHead \o max \o MsgCapTail), <<>>,
                        Absent, "CapReached")
            ELSE HookTranscript(file, it, max, promise, hookInput, fs, err)


(***************************************************************************)
(* The inputs: state records, hook payloads, transcripts                   *)
(***************************************************************************)

\* a value written after a header key
V0 == <<"0">>
V1 == <<"1">>
V2 == <<"2">>
V9 == <<"9">>
V08 == <<"0","8">>
V010 == <<"0","1","0">>
VAbc == <<"a","b","c">>
VMinus1 == <<"-","1">>
VDone == <<"d","o","n","e">>
VQuotedDone == <<"\"","d","o","n","e","\"">>
VAllDone == <<"\"","a","l","l"," ","d","o","n","e","\"">>
VAllTabDone == <<"a","l","l","\t","d","o","n","e">>

Field(key, v) == key \o <<" ">> \o v

\* header lines that give iteration; <<>> is a header without the line
IterationLines ==
    { <<Field(KeyIteration, v)>> : v \in {V0, V1, V2, V08, V010, VAbc, VMinus1} }
      \cup { <<KeyIteration \o V0>>, <<KeyIteration>>, <<>> }

MaxLines ==
    { <<Field(KeyMaxIterations, v)>> : v \in {V0, V2, V9, V08, VAbc} } \cup { <<>> }

PromiseLines ==
    { <<Field(KeyCompletionPromise, v)>> :
         v \in {VDone, VQuotedDone, VAllDone, VAllTabDone, Null} }
      \cup { <<KeyCompletionPromise>>, <<>> }

BodyPlain == << <<"F","i","x"," ","t","h","e"," ","b","u","g">> >>
BodyDelim == << <<"F","i","x">>, Delim, <<"m","o","r","e">> >>
BodyIterationLine == << <<"F","i","x">>, <<"i","t","e","r","a","t","i","o","n",":"," ","7">> >>
BodyEscapes == << <<"s","a","y"," ","\"","h","i","\"","\t","a","\\","b">> >>
BodyTrailingBlank == << <<"F","i","x">>, <<>> >>
BodyDelimField == << <<"F","i","x">>, Delim, <<"i","t","e","r","a","t","i","o","n",":"," ","5">> >>

Bodies ==
    {BodyPlain, BodyDelim, BodyIterationLine, BodyEscapes, BodyTrailingBlank,
     BodyDelimField, <<>>}

\* the state file: '---', the header lines, '---', the prompt body
Record(itLines, maxLines, promLines, body) ==
    [exists |-> TRUE,
     lines  |-> <<Delim>> \o itLines \o maxLines \o promLines \o <<Delim>> \o body]

ItDefault == <<Field(KeyIteration, V0)>>
MaxDefault == <<Field(KeyMaxIterations, V2)>>
PromDefault == <<Field(KeyCompletionPromise, VQuotedDone)>>

\* the records a run starts from: the record written at loop initiation
\* (iteration 0), and that record with one part replaced, as an edit of
\* the file or another initiation would leave it
InitialRecords ==
    { Record(i, MaxDefault, PromDefault, BodyPlain) : i \in IterationLines }
      \cup { Record(ItDefault, m, PromDefault, BodyPlain) : m \in MaxLines }
      \cup { Record(ItDefault, MaxDefault, q, BodyPlain) : q \in PromiseLines }
      \cup { Record(ItDefault, MaxDefault, PromDefault, b) : b \in Bodies }
      \cup { Record(<<Field(KeyIteration, V2)>>, MaxDefault, q, BodyPlain) :
                q \in {<<>>, <<Field(KeyCompletionPromise, Null)>>} }
      \cup { Record(<<Field(KeyIteration, V010)>>, <<Field(KeyMaxIterations, V9)>>,
                    PromDefault, BodyPlain),
             Record(<<KeyIteration \o V0>>, MaxDefault,
                    <<Field(KeyCompletionPromise, Null)>>, BodyPlain),
             Record(ItDefault, <<Field(KeyMaxIterations, V0)>>,
                    <<Field(KeyCompletionPromise, Null)>>, BodyIterationLine),
             Record(ItDefault, MaxDefault, <<>>, BodyPlain),
             Record(<<Field(KeyIteration, V08)>>, MaxDefault, PromDefault, <<>>) }

TPath == <<"/","t",".","j","s","o","n","l">>

PayloadPath == <<"{","\"","t","r","a","n","s","c","r","i","p","t","_","p","a","t","h","\"",":","\"","/","t",".","j","s","o","n","l","\"","}">>
PayloadSpaced == <<"{","\"","s","e","s","s","i","o","n","_","i","d","\"",":","\"","s","\"",","," ","\"","t","r","a","n","s","c","r","i","p","t","_","p","a","t","h","\""," ",":"," ","\"","/","t",".","j","s","o","n","l","\"","}">>
PayloadEmptyPath == <<"{","\"","t","r","a","n","s","c","r","i","p","t","_","p","a","t","h","\"",":","\"","\"","}">>
PayloadNoField == <<"{","\"","s","e","s","s","i","o","n","_","i","d","\"",":","\"","s","\"","}">>

Payloads == {PayloadPath, PayloadSpaced, PayloadEmptyPath, PayloadNoField, <<>>}

LineUser == <<"{","\"","r","o","l","e","\"",":","\"","u","s","e","r","\"",",","\"","c","o","n","t","e","n","t","\"",":","[","{","\"","t","y","p","e","\"",":","\"","t","e","x","t","\"",",","\"","t","e","x","t","\"",":","\"","<","p","r","o","m","i","s","e",">","d","o","n","e","<","/","p","r","o","m","i","s","e",">","\"","}","]","}">>
LineWorking == <<"{","\"","r","o","l","e","\"",":","\"","a","s","s","i","s","t","a","n","t","\"",",","\"","c","o","n","t","e","n","t","\"",":","[","{","\"","t","y","p","e","\"",":","\"","t","e","x","t","\"",",","\"","t","e","x","t","\"",":","\"","w","o","r","k","i","n","g","\"","}","]","}">>
LineDone == <<"{","\"","r","o","l","e","\"",":","\"","a","s","s","i","s","t","a","n","t","\"",",","\"","c","o","n","t","e","n","t","\"",":","[","{","\"","t","y","p","e","\"",":","\"","t","e","x","t","\"",",","\"","t","e","x","t","\"",":","\"","o","k"," ","<","p","r","o","m","i","s","e",">","d","o","n","e","<","/","p","r","o","m","i","s","e",">","\"","}","]","}">>
LineSpacedDone == <<"{","\"","r","o","l","e","\"",":","\"","a","s","s","i","s","t","a","n","t","\"",",","\"","c","o","n","t","e","n","t","\"",":","[","{","\"","t","y","p","e","\"",":","\"","t","e","x","t","\"",",","\"","t","e","x","t","\"",":","\"","<","p","r","o","m","i","s","e",">"," ","d","o","n","e"," ","<","/","p","r","o","m","i","s","e",">","\"","}","]","}">>
LineDoneBang == <<"{","\"","r","o","l","e","\"",":","\"","a","s","s","i","s","t","a","n","t","\"",",","\"","c","o","n","t","e","n","t","\"",":","[","{","\"","t","y","p","e","\"",":","\"","t","e","x","t","\"",",","\"","t","e","x","t","\"",":","\"","<","p","r","o","m","i","s","e",">","d","o","n","e","!","<","/","p","r","o","m","i","s","e",">","\"","}","]","}">>
LineAllDone == <<"{","\"","r","o","l","e","\"",":","\"","a","s","s","i","s","t","a","n","t","\"",",","\"","c","o","n","t","e","n","t","\"",":","[","{","\"","t","y","p","e","\"",":","\"","t","e","x","t","\"",",","\"","t","e","x","t","\"",":","\"","<","p","r","o","m","i","s","e",">","a","l","l"," ","d","o","n","e","<","/","p","r","o","m","i","s","e",">","\"","}","]","}">>
LineDoneThenNo == <<"{","\"","r","o","l","e","\"",":","\"","a","s","s","i","s","t","a","n","t","\"",",","\"","c","o","n","t","e","n","t","\"",":","[","{","\"","t","y","p","e","\"",":","\"","t","e","x","t","\"",",","\"","t","e","x","t","\"",":","\"","<","p","r","o","m","i","s","e",">","d","o","n","e","<","/","p","r","o","m","i","s","e",">"," ","<","p","r","o","m","i","s","e",">","n","o","<","/","p","r","o","m","i","s","e",">","\"","}","]","}">>
LineNoContent == <<"{","\"","r","o","l","e","\"",":","\"","a","s","s","i","s","t","a","n","t","\"",",","\"","c","o","n","t","e","n","t","\"",":","[","]","}">>
LineToolUse == <<"{","\"","r","o","l","e","\"",":","\"","a","s","s","i","s","t","a","n","t","\"",",","\"","c","o","n","t","e","n","t","\"",":","[","{","\"","t","y","p","e","\"",":","\"","t","o","o","l","_","u","s","e","\"",",","\"","n","a","m","e","\"",":","\"","x","\"","}","]","}">>
LineTextField == <<"{","\"","r","o","l","e","\"",":","\"","a","s","s","i","s","t","a","n","t","\"",",","\"","t","e","x","t","\"",":","\"","<","p","r","o","m","i","s","e",">","d","o","n","e","<","/","p","r","o","m","i","s","e",">","\"","}">>

\* the transcript files the host may present
Transcripts ==
    { <<LineUser, LineWorking>>, <<LineUser, LineDone>>, <<LineSpacedDone>>,
      <<LineDoneBang>>, <<LineAllDone>>, <<LineDoneThenNo>>, <<LineDone, LineWorking>>,
      <<LineWorking, LineUser>>,
      <<LineUser>>, <<LineUser, LineNoContent>>, <<LineToolUse>>, <<LineTextField>>, <<>> }

\* the regular files a transcript path may name
NoFiles == [x \in {} |-> <<>>]

FileSystems == {NoFiles} \cup { [x \in {TPath} |-> t] : t \in Transcripts }

\* the payload and the files of one invocation: every transcript with the
\* plain payload, every payload with one transcript, and no file at all
Invocations ==
    { <<PayloadPath, fs>> : fs \in FileSystems }
      \cup { <<h, [x \in {TPath} |-> <<LineUser, LineWorking>>]>> : h \in Payloads }

(***************************************************************************)
(* The state machine: the host calls the hook once per stop event          *)
(***************************************************************************)

MaxCalls == 3

VARIABLES
    file,       \* the state record at .claude/ralph-loop.local.md
    origin,     \* the record as it was when the loop was initiated
    last,       \* the last invocation: its inputs, the record before it, its result
    calls,      \* number of invocations so far
    blocks,     \* number of block decisions emitted so far
    readable,   \* every invocation so far read an assistant text without a matching marker
    proc,       \* the hook processes that run step by step: where each one stands
    tmp         \* the temporary file ${RALPH_STATE_FILE}.tmp.$$ of each process

vars == <<file, origin, last, calls, blocks, readable, proc, tmp>>

\* the hook processes of the step-by-step specification; the process id
\* is what $$ expands to
Procs == {"p1", "p2"}

\* a process the host has not started
Idle ==
    [pc |-> "idle", hookInput |-> <<>>, fs |-> NoFiles,
     pre |-> Absent, it |-> <<>>, promise |-> <<>>, prompt |-> <<>>,
     stdout |-> <<>>, exit |-> 0, outcome |-> "None"]

NoResult == Result(0, <<>>, <<>>, Absent, "None")

Init ==
    /\ file \in InitialRecords \cup {Absent}
    /\ origin = file
    /\ last = [pre |-> Absent, hookInput |-> <<>>, fs |-> NoFiles, res |-> NoResult]
    /\ calls = 0
    /\ blocks = 0
    /\ readable = TRUE
    /\ proc = [p \in Procs |-> Idle]
    /\ tmp = [p \in Procs |-> Absent]

IsBlock(res) ==
    /\ Len(res.stdout) = 1
    /\ StartsWith(res.stdout[1], JsonHead)

\* the payload names an existing transcript whose last assistant turn gives
\* a text, and that text carries no '<promise>' marker
ReadableNoMarker(hookInput, fs) ==
    /\ PathMatches(hookInput) # <<>>
    /\ TRANSCRIPT_PATH(hookInput) \in DOMAIN fs
    /\ LET lastLine == LAST_LINE(fs[TRANSCRIPT_PATH(hookInput)])
           out      == LAST_OUTPUT(lastLine)
       IN  lastLine # <<>> /\ out # <<>> /\ ~Contains(out, PromiseOpen)

\* the invocations with a readable, marker-free transcript
ReadableInvocations == {inv \in Invocations : ReadableNoMarker(inv[1], inv[2])}

\* one run of the hook on a stop event
Invoke(hookInput, fs) ==
    /\ calls < MaxCalls
    /\ LET res == Hook(file, hookInput, fs)
       IN  /\ file' = res.file
           /\ last' = [pre |-> file, hookInput |-> hookInput, fs |-> fs, res |-> res]
           /\ blocks' = IF IsBlock(res) THEN blocks + 1 ELSE blocks
           /\ readable' = (readable /\ (<<hookInput, fs>> \in ReadableInvocations))
    /\ calls' = calls + 1
    /\ UNCHANGED <<origin, proc, tmp>>

Next == \E inv \in Invocations : Invoke(inv[1], inv[2])

Spec == Init /\ [][Next]_vars


(***************************************************************************)
(* The hook step by step: one step per access to the state file, so that   *)
(* a kill or another hook process can come between two of them             *)
(***************************************************************************)

\* the records and invocations the step-by-step runs start from
StepRecords ==
    { Record(ItDefault, MaxDefault, PromDefault, BodyPlain),
      Record(ItDefault, MaxDefault, PromDefault, BodyIterationLine),
      Record(ItDefault, MaxDefault, PromDefault, <<>>),
      Record(<<Field(KeyIteration, V2)>>, MaxDefault, PromDefault, BodyPlain),
      Record(<<Field(KeyIteration, V010)>>, <<Field(KeyMaxIterations, V9)>>,
             PromDefault, BodyPlain),
      Record(<<Field(KeyIteration, VAbc)>>, MaxDefault, PromDefault, BodyPlain),
      Record(<<Field(KeyIteration, V08)>>, MaxDefault, PromDefault, BodyPlain) }

StepInvocations ==
    { <<PayloadPath, [x \in {TPath} |-> <<LineUser, LineWorking>>]>>,
      <<PayloadPath, [x \in {TPath} |-> <<LineUser, LineDone>>]>>,
      <<PayloadPath, NoFiles>>,
      <<PayloadNoField, [x \in {TPath} |-> <<LineUser, LineWorking>>]>> }

InitSteps ==
    /\ file \in StepRecords
    /\ origin = file
    /\ last = [pre |-> Absent, hookInput |-> <<>>, fs |-> NoFiles, res |-> NoResult]
    /\ calls = 0
    /\ blocks = 0
    /\ readable = TRUE
    /\ proc = [p \in Procs |-> Idle]
    /\ tmp = [p \in Procs |-> Absent]

\* the variables of the call-by-call specification stay as they are
Frame == UNCHANGED <<origin, last, calls, blocks, readable>>

Running(p) == proc[p].pc \notin {"idle", "done", "killed"}

\* the script ends: set -e after a failed command, or an exit
Ended(p, exit, outcome) ==
    proc' = [proc EXCEPT ![p].pc = "done", ![p].exit = exit, ![p].outcome = outcome]

\* the script of lines 24-137 went past the completion check: it ended as
\* a continuation or in one of the two failures of lines 140-164
PastCompletionCheck(res) ==
    \/ res.outcome = "Continuing"
    \/ /\ res.stderr # <<>>
       /\ res.stderr[Len(res.stderr)] \in
            { "State file corrupted or incomplete: No prompt text found",
              "bash: NEXT_ITERATION: unbound variable" }

\* lines 13-21: the host starts the hook on a stop event; the hook reads
\* its payload and tests for the state file
StartHook(p, hookInput, fs) ==
    /\ proc[p].pc = "idle"
    /\ proc' = [proc EXCEPT ![p] =
                  IF file.exists
                  THEN [Idle EXCEPT !.pc = "parse", !.hookInput = hookInput,
                                    !.fs = fs, !.pre = file]
                  ELSE [Idle EXCEPT !.pc = "done", !.hookInput = hookInput,
                                    !.fs = fs, !.pre = file, !.outcome = "NoLoop"]]
    /\ UNCHANGED <<file, tmp>>
    /\ Frame

\* lines 24-137: sed reads the header from the state file, then the
\* validation, the cap check, the transcript and the completion check
\* decide on what was read; a terminal path prints and goes on to its rm
Parse(p) ==
    /\ proc[p].pc = "parse"
    /\ IF ~file.exists THEN Ended(p, 2, "Aborted")
       ELSE LET res == Hook(file, proc[p].hookInput, proc[p].fs)
                fm  == FRONTMATTER(file.lines)
            IN  IF PastCompletionCheck(res)
                THEN proc' = [proc EXCEPT ![p].pc = "awk",
                                          ![p].it = FieldValue(fm, KeyIteration),
                                          ![p].promise = PromiseValue(fm)]
                ELSE IF res.outcome = "Aborted"
                THEN Ended(p, res.exit, "Aborted")
                ELSE proc' = [proc EXCEPT ![p].pc = "rm",
                                          ![p].stdout = res.stdout,
                                          ![p].outcome = res.outcome]
    /\ UNCHANGED <<file, tmp>>
    /\ Frame

\* rm "$RALPH_STATE_FILE" of a terminal path; rm fails on a missing file
Remove(p) ==
    /\ proc[p].pc = "rm"
    /\ IF file.exists
       THEN /\ file' = Absent
            /\ proc' = [proc EXCEPT ![p].pc = "exit"]
       ELSE /\ Ended(p, 1, "Aborted")
            /\ UNCHANGED file
    /\ UNCHANGED tmp
    /\ Frame

\* exit 0 after the rm
Exit(p) ==
    /\ proc[p].pc = "exit"
    /\ Ended(p, 0, proc[p].outcome)
    /\ UNCHANGED <<file, tmp>>
    /\ Frame

\* lines 140-158: awk reads the prompt from the state file; the expansion
\* of an unset NEXT_ITERATION ends the script at line 163 before the
\* redirection creates the temporary file
ReadPrompt(p) ==
    /\ proc[p].pc = "awk"
    /\ IF ~file.exists THEN Ended(p, 2, "Aborted")
       ELSE IF PROMPT_TEXT(file.lines) = <<>>
       THEN proc' = [proc EXCEPT ![p].pc = "rm", ![p].outcome = "CorruptState"]
       ELSE IF ~ArithOk(proc[p].it) THEN Ended(p, 1, "Aborted")
       ELSE proc' = [proc EXCEPT ![p].pc = "redirect",
                                 ![p].prompt = PROMPT_TEXT(file.lines)]
    /\ UNCHANGED <<file, tmp>>
    /\ Frame

\* line 163, > "$TEMP_FILE": the shell creates the temporary file, empty
Redirect(p) ==
    /\ proc[p].pc = "redirect"
    /\ tmp' = [tmp EXCEPT ![p] = [exists |-> TRUE, lines |-> <<>>]]
    /\ proc' = [proc EXCEPT ![p].pc = "sed"]
    /\ UNCHANGED file
    /\ Frame

\* line 163, sed: reads the state file and writes the temporary file
Sed(p) ==
    /\ proc[p].pc = "sed"
    /\ IF file.exists
       THEN /\ tmp' = [tmp EXCEPT ![p].lines =
                         SedUpdate(file.lines, ToDecimal(ArithVal(proc[p].it) + 1))]
            /\ proc' = [proc EXCEPT ![p].pc = "mv"]
       ELSE /\ Ended(p, 2, "Aborted")
            /\ UNCHANGED tmp
    /\ UNCHANGED file
    /\ Frame

\* line 164, mv: one rename puts the temporary file at the state path
Move(p) ==
    /\ proc[p].pc = "mv"
    /\ file' = tmp[p]
    /\ tmp' = [tmp EXCEPT ![p] = Absent]
    /\ proc' = [proc EXCEPT ![p].pc = "printf"]
    /\ Frame

\* lines 167-192: the block decision on standard output, then exit 0
Printf(p) ==
    /\ proc[p].pc = "printf"
    /\ proc' = [proc EXCEPT
                  ![p].pc = "done",
                  ![p].outcome = "Continuing",
                  ![p].stdout =
                     <<BlockDecision(proc[p].prompt,
                                     SYSTEM_MSG(ToDecimal(ArithVal(proc[p].it) + 1),
                                                proc[p].promise))>>]
    /\ UNCHANGED <<file, tmp>>
    /\ Frame

\* the process is killed where it stands
Kill(p) ==
    /\ Running(p)
    /\ proc' = [proc EXCEPT ![p].pc = "killed"]
    /\ UNCHANGED <<file, tmp>>
    /\ Frame

NextSteps ==
    \E p \in Procs :
        \/ \E inv \in StepInvocations : StartHook(p, inv[1], inv[2])
        \/ Parse(p)
        \/ Remove(p)
        \/ Exit(p)
        \/ ReadPrompt(p)
        \/ Redirect(p)
        \/ Sed(p)
        \/ Move(p)
        \/ Printf(p)
        \/ Kill(p)

SpecSteps == InitSteps /\ [][NextSteps]_vars


(***************************************************************************)
(* The state record as the specification reads it                          *)
(***************************************************************************)

\* positions of the '---' lines of a record
DelimPositions(lines) == {i \in 1..Len(lines) : lines[i] = Delim}

\* position of the '---' line that closes the header, 0 when there is none
HeaderEnd(lines) ==
    LET d1 == MinPos(DelimPositions(lines))
    IN  MinPos({i \in DelimPositions(lines) : i > d1})

\* the header block: the lines between the first '---' line and the next one
HeaderOf(lines) ==
    IF HeaderEnd(lines) = 0 THEN <<>>
    ELSE SubSeq(lines, MinPos(DelimPositions(lines)) + 1, HeaderEnd(lines) - 1)

\* the prompt body: all lines strictly after the second '---' line
BodyOf(lines) ==
    IF HeaderEnd(lines) = 0 THEN <<>>
    ELSE SubSeq(lines, HeaderEnd(lines) + 1, Len(lines))

\* the values the header gives for a key, in order
HeaderValues(lines, key) ==
    LET ls == SelectSeq(HeaderOf(lines), LAMBDA l : StartsWith(l, key))
    IN  [i \in 1..Len(ls) |-> DropSpaces(SubSeq(ls[i], Len(key) + 1, Len(ls[i])))]

\* the header gives key exactly once, as a string of decimal digits
IsNumberField(lines, key) ==
    /\ Len(HeaderValues(lines, key)) = 1
    /\ IsDigits(HeaderValues(lines, key)[1])

\* the base-10 value of a number field
NumberField(lines, key) == BaseVal(HeaderValues(lines, key)[1], 10)

ValidNumbers(lines) ==
    /\ IsNumberField(lines, KeyIteration)
    /\ IsNumberField(lines, KeyMaxIterations)

\* the promise of the record, one layer of quotes removed; Null when the
\* header has no completion_promise line
PromiseOf(lines) ==
    LET vs == HeaderValues(lines, KeyCompletionPromise)
    IN  IF vs = <<>> THEN Null
        ELSE IF Len(vs[1]) >= 2 /\ vs[1][1] = "\"" /\ vs[1][Len(vs[1])] = "\""
             THEN SubSeq(vs[1], 2, Len(vs[1]) - 1)
             ELSE vs[1]

UnderCap(lines) ==
    \/ NumberField(lines, KeyMaxIterations) = 0
    \/ NumberField(lines, KeyIteration) < NumberField(lines, KeyMaxIterations)

(***************************************************************************)
(* The last invocation                                                     *)
(***************************************************************************)

Called == calls > 0

\* the last invocation started with a state record present
CalledOnRecord == Called /\ last.pre.exists

EmittedBlock == IsBlock(last.res)

Deleted == ~file.exists

EndedIn(outcome) == last.res.outcome = outcome

(***************************************************************************)
(* Claims                                                                  *)
(***************************************************************************)

\* C1: for a record whose iteration and max_iterations are valid numbers,
\* the invocation ends in CapReached (record deleted, no block decision)
\* if and only if max_iterations > 0 and iteration >= max_iterations.
C1_CapReachedExactlyAtCap ==
    (CalledOnRecord /\ ValidNumbers(last.pre.lines)) =>
        ((EndedIn("CapReached") /\ Deleted /\ ~EmittedBlock)
            <=> ~UnderCap(last.pre.lines))

\* the post-state of a continuation: block decision emitted, record still
\* present, iteration increased by exactly 1
ContinuationPost ==
    /\ EmittedBlock
    /\ file.exists
    /\ ValidNumbers(last.pre.lines)
    /\ IsNumberField(file.lines, KeyIteration)
    /\ NumberField(file.lines, KeyIteration)
         = NumberField(last.pre.lines, KeyIteration) + 1

\* the post-state of a terminal outcome: no block decision, record absent
TerminalPost == ~EmittedBlock /\ Deleted

\* C2: every invocation that starts with a state record present ends in
\* exactly one of the continuation post-state and the terminal post-state.
C2_ContinuationOrTerminal ==
    CalledOnRecord =>
        /\ ContinuationPost \/ TerminalPost
        /\ ~(ContinuationPost /\ TerminalPost)

\* C3: every invocation of the hook exits with status 0.
C3_AlwaysExitsZero == Called => last.res.exit = 0


\* the header does not give a valid iteration or max_iterations (the value
\* is not a non-empty digit string, or the line is missing), or the record
\* has no prompt body
Corrupt(lines) ==
    \/ ~IsNumberField(lines, KeyIteration)
    \/ ~IsNumberField(lines, KeyMaxIterations)
    \/ BodyOf(lines) = <<>>

CorruptionDiagnostics ==
    { "State file corrupted: 'iteration' field is not a valid number",
      "State file corrupted: 'max_iterations' field is not a valid number",
      "State file corrupted or incomplete: No prompt text found" }

ReportsCorruption ==
    \E i \in 1..Len(last.res.stderr) : last.res.stderr[i] \in CorruptionDiagnostics

\* C4: state corruption is a terminal outcome, never a crash: a record with
\* an invalid or missing iteration or max_iterations, or without a prompt
\* body, is deleted, no block decision is emitted, the corruption is
\* reported on the error stream and the exit status is 0.
C4_CorruptionIsTerminal ==
    (CalledOnRecord /\ Corrupt(last.pre.lines)) =>
        /\ Deleted
        /\ ~EmittedBlock
        /\ ReportsCorruption
        /\ last.res.exit = 0

\* a record the controller accepts and that is under its cap
ValidUnderCap(lines) ==
    /\ ValidNumbers(lines)
    /\ BodyOf(lines) # <<>>
    /\ UnderCap(lines)

\* the payload carries no transcript path, or the path names no existing
\* file, or the transcript has no assistant turn, or the last assistant
\* turn yields no text
Unreadable(hookInput, fs) ==
    \/ TRANSCRIPT_PATH(hookInput) = <<>>
    \/ TRANSCRIPT_PATH(hookInput) \notin DOMAIN fs
    \/ GrepAssistant(fs[TRANSCRIPT_PATH(hookInput)]) = <<>>
    \/ LAST_OUTPUT(LAST_LINE(fs[TRANSCRIPT_PATH(hookInput)])) = <<>>

\* the text extracted from the last assistant turn of the last invocation
LastText == LAST_OUTPUT(LAST_LINE(last.fs[TRANSCRIPT_PATH(last.hookInput)]))

\* C5: the controller never continues blindly: for a valid record under its
\* cap, an invocation that cannot read an assistant text deletes the
\* record, emits no block decision and exits 0; a block decision is emitted
\* only after a non-empty text was extracted.
C5_NeverContinuesBlindly ==
    /\ (CalledOnRecord /\ ValidUnderCap(last.pre.lines)
          /\ Unreadable(last.hookInput, last.fs)) =>
            (Deleted /\ ~EmittedBlock /\ last.res.exit = 0)
    /\ (Called /\ EmittedBlock) => ~Unreadable(last.hookInput, last.fs)

\* the payloads of the <promise>...</promise> markers of a text: from each
\* opening token to the next closing token
MarkerPayloads(text) ==
    LET closeAfter(k) == MinPos({e \in Occurrences(text, PromiseClose) :
                                    e >= k + Len(PromiseOpen)})
    IN  { SubSeq(text, k + Len(PromiseOpen), closeAfter(k) - 1) :
             k \in {x \in Occurrences(text, PromiseOpen) : closeAfter(x) # 0} }

\* all whitespace characters removed
NoWhitespace(x) == DeleteChars(x, Space)

\* the text contains a marker with a non-empty payload equal to the promise
\* once all whitespace is removed from both
MarkerMatches(text, promise) ==
    \E payload \in MarkerPayloads(text) :
        payload # <<>> /\ NoWhitespace(payload) = NoWhitespace(promise)

PromiseConfigured(lines) ==
    /\ Len(HeaderValues(lines, KeyCompletionPromise)) = 1
    /\ PromiseOf(lines) \notin {Null, <<>>}

\* C6: completion matching is whitespace-insensitive but content-exact: for
\* every extracted text and configured promise, completion is detected
\* (record deleted, no block decision) if and only if the text contains a
\* marker whose non-empty payload equals the promise after ALL whitespace
\* is removed from both.
C6_CompletionIffMarkerMatches ==
    (CalledOnRecord /\ ValidUnderCap(last.pre.lines)
       /\ PromiseConfigured(last.pre.lines)
       /\ ~Unreadable(last.hookInput, last.fs)) =>
        ((EndedIn("CompletionDetected") /\ Deleted /\ ~EmittedBlock)
            <=> MarkerMatches(LastText, PromiseOf(last.pre.lines)))

PromiseNullOrAbsent(lines) ==
    \/ HeaderValues(lines, KeyCompletionPromise) = <<>>
    \/ PromiseOf(lines) \in {Null, <<>>}

\* C7: when completion_promise is null or absent, no invocation ends in
\* CompletionDetected, the hook does not fail, and every invocation under
\* the cap with a readable transcript continues the loop.
C7_NoPromiseNoCompletion ==
    (CalledOnRecord /\ ValidNumbers(last.pre.lines)
       /\ BodyOf(last.pre.lines) # <<>>
       /\ PromiseNullOrAbsent(last.pre.lines)) =>
        /\ ~EndedIn("CompletionDetected")
        /\ last.res.exit = 0
        /\ (UnderCap(last.pre.lines) /\ ~Unreadable(last.hookInput, last.fs))
              => (EmittedBlock /\ file.exists)

\* position of the quote that closes the JSON string starting at start:
\* the first quote preceded by an even number of backslashes
JsonStringEnd(s, start) ==
    LET run(i) == (i - 1) - MaxPos({j \in (start - 1)..(i - 1) :
                                       j = start - 1 \/ s[j] # "\\"})
    IN  MinPos({i \in start..Len(s) : s[i] = "\"" /\ run(i) % 2 = 0})

\* the character a JSON escape \c stands for
JsonEscaped(c) ==
    CASE c = "n" -> NL [] c = "t" -> "\t" [] c = "r" -> "\r" [] OTHER -> c

\* a JSON string body with its escapes undone
RECURSIVE JsonUnescape(_)
JsonUnescape(s) ==
    LET k == FirstIndex(s, <<"\\">>)
    IN  IF k = 0 \/ k = Len(s) THEN s
        ELSE SubSeq(s, 1, k - 1) \o <<JsonEscaped(s[k + 1])>>
               \o JsonUnescape(SubSeq(s, k + 2, Len(s)))

\* the reason of a block decision, as the host decodes it
ReasonOf(line) ==
    JsonUnescape(SubSeq(line, Len(JsonHead) + 1,
                        JsonStringEnd(line, Len(JsonHead) + 1) - 1))

\* the prompt body stored at loop initiation: all content after the second
\* '---' line of the record, read up to its last non-blank line
OriginalBody == StripTrailingNL(JoinLines(BodyOf(origin.lines)))

\* C8: on every continuation the reason of the block decision, JSON-
\* unescaped, is the prompt body stored at loop initiation: all content
\* after the second '---' line of the record, unmodified, the same on
\* every continuation of the loop.
C8_ReasonIsOriginalBody ==
    (Called /\ EmittedBlock /\ origin.exists) =>
        ReasonOf(last.res.stdout[1]) = OriginalBody

\* C9: the iteration update changes only the header's iteration field:
\* re-parsing the record after a continuation gives iteration + 1 and the
\* same max_iterations, completion_promise and body, line for line.
C9_UpdateChangesOnlyIteration ==
    (CalledOnRecord /\ EndedIn("Continuing")) =>
        /\ IsNumberField(last.pre.lines, KeyIteration)
        /\ IsNumberField(file.lines, KeyIteration)
        /\ NumberField(file.lines, KeyIteration)
             = NumberField(last.pre.lines, KeyIteration) + 1
        /\ HeaderValues(file.lines, KeyMaxIterations)
             = HeaderValues(last.pre.lines, KeyMaxIterations)
        /\ HeaderValues(file.lines, KeyCompletionPromise)
             = HeaderValues(last.pre.lines, KeyCompletionPromise)
        /\ BodyOf(file.lines) = BodyOf(last.pre.lines)

\* the loop was initiated with a valid record, iteration 0 and a cap N > 0
OriginCapped ==
    /\ origin.exists
    /\ ValidNumbers(origin.lines)
    /\ BodyOf(origin.lines) # <<>>
    /\ NumberField(origin.lines, KeyIteration) = 0
    /\ NumberField(origin.lines, KeyMaxIterations) > 0

\* C10: a capped loop always ends: from iteration 0 with cap N > 0 the
\* persisted iteration grows by exactly 1 with each continuation, at most N
\* block decisions are emitted, the record is gone by the (N+1)-th
\* invocation, and exactly N block decisions are emitted when every
\* transcript is readable and carries no marker.
C10_CappedLoopEnds ==
    OriginCapped =>
        LET N == NumberField(origin.lines, KeyMaxIterations)
        IN  /\ blocks <= N
            /\ calls >= N + 1 => Deleted
            /\ (Called /\ EmittedBlock) => ContinuationPost
            /\ (readable /\ Deleted) => blocks = N


\* C11: when no state record exists, an invocation emits no output, exits
\* successfully and has no side effects (the state path is still without a
\* file), for every hook payload, an empty or malformed one included.
C11_NoLoopNoEffects ==
    (Called /\ ~last.pre.exists) =>
        /\ last.res.stdout = <<>>
        /\ last.res.stderr = <<>>
        /\ last.res.exit = 0
        /\ file = last.pre

\* an invocation with an empty payload found no state record
C11_Witness ==
    /\ Called
    /\ ~last.pre.exists
    /\ last.hookInput = <<>>
    /\ EndedIn("NoLoop")


\* b is the record a with only the iteration of the header incremented
OnlyIterationIncremented(a, b) ==
    /\ IsNumberField(a, KeyIteration)
    /\ IsNumberField(b, KeyIteration)
    /\ NumberField(b, KeyIteration) = NumberField(a, KeyIteration) + 1
    /\ HeaderValues(b, KeyMaxIterations) = HeaderValues(a, KeyMaxIterations)
    /\ HeaderValues(b, KeyCompletionPromise) = HeaderValues(a, KeyCompletionPromise)
    /\ BodyOf(b) = BodyOf(a)

\* p is the only hook process the host has started
Alone(p) ==
    /\ proc[p].pc # "idle"
    /\ \A q \in Procs \ {p} : proc[q].pc = "idle"

\* C12: the state record is never observable in a partially written form:
\* at every point of an invocation, and after a kill at any point, the file
\* at the state path is absent, or the pre-invocation record, or that
\* record with only the iteration incremented.
C12_NeverPartiallyWritten ==
    \A p \in Procs :
        Alone(p) =>
            \/ ~file.exists
            \/ file = proc[p].pre
            \/ OnlyIterationIncremented(proc[p].pre.lines, file.lines)


\* C13: on every terminal outcome the invocation produces no output on
\* standard output: standard output is non-empty only on a continuation,
\* where it is the single-line block decision.
C13_StdoutOnlyOnContinuation ==
    Called =>
        \/ last.res.stdout = <<>>
        \/ EndedIn("Continuing") /\ EmittedBlock


\* the payload of the first marker pair of a text: the content between the
\* first opening token and the first closing token after it
FirstPayload(text) ==
    LET k == MinPos(Occurrences(text, PromiseOpen))
        e == MinPos({x \in Occurrences(text, PromiseClose) : x >= k + Len(PromiseOpen)})
    IN  SubSeq(text, k + Len(PromiseOpen), e - 1)

HasMarkerPair(text) ==
    \E k \in Occurrences(text, PromiseOpen) :
        \E e \in Occurrences(text, PromiseClose) : e >= k + Len(PromiseOpen)

FirstPayloadMatches(text, promise) ==
    /\ HasMarkerPair(text)
    /\ FirstPayload(text) # <<>>
    /\ NoWhitespace(FirstPayload(text)) = NoWhitespace(promise)

\* C14: when the assistant text contains more than one marker pair, only
\* the first pair is considered: completion is detected if and only if the
\* payload of the first pair matches the promise.
C14_FirstMarkerDecides ==
    (CalledOnRecord /\ ValidUnderCap(last.pre.lines)
       /\ PromiseConfigured(last.pre.lines)
       /\ ~Unreadable(last.hookInput, last.fs)
       /\ Cardinality(Occurrences(LastText, PromiseOpen)) > 1) =>
        (EndedIn("CompletionDetected")
            <=> FirstPayloadMatches(LastText, PromiseOf(last.pre.lines)))


\* the role of a transcript entry: the value of its "role" field
EntryRole(entry) ==
    LET key == <<"\"","r","o","l","e","\"",":","\"">>
        k   == FirstIndex(entry, key)
        e   == MinPos({i \in (k + Len(key))..Len(entry) : entry[i] = "\""})
    IN  IF k = 0 \/ e = 0 THEN <<>> ELSE SubSeq(entry, k + Len(key), e - 1)

\* the transcript cut down to its last entry with role 'assistant'
LastAssistantOnly(transcript) ==
    LET n == MaxPos({i \in 1..Len(transcript) :
                        EntryRole(transcript[i]) = <<"a","s","s","i","s","t","a","n","t">>})
    IN  IF n = 0 THEN <<>> ELSE <<transcript[n]>>

\* the last invocation read an existing transcript
ReadTranscript ==
    /\ CalledOnRecord
    /\ TRANSCRIPT_PATH(last.hookInput) \in DOMAIN last.fs

\* C15: only the last assistant entry of the transcript decides the
\* outcome: the invocation ends exactly as it does on the transcript that
\* holds this entry alone, whatever earlier assistant entries, entries of
\* another role and entries after it contain.
C15_LastAssistantEntryDecides ==
    ReadTranscript =>
        LET path == TRANSCRIPT_PATH(last.hookInput)
        IN  last.res = Hook(last.pre, last.hookInput,
                            [last.fs EXCEPT ![path] = LastAssistantOnly(last.fs[path])])

\* an earlier assistant entry carries the matching marker, the last one
\* does not, and the loop continued
C15_Witness ==
    /\ ReadTranscript
    /\ last.fs[TRANSCRIPT_PATH(last.hookInput)] = <<LineDone, LineWorking>>
    /\ PromiseOf(last.pre.lines) = VDone
    /\ EndedIn("Continuing")
    /\ EmittedBlock


\* the lines of the header block that give a key
HeaderLines(lines, key) ==
    SelectSeq(HeaderOf(lines), LAMBDA l : StartsWith(l, key))

\* the record with the same header and another body
WithBody(rec, body) ==
    [rec EXCEPT !.lines = SubSeq(rec.lines, 1, HeaderEnd(rec.lines)) \o body]

\* C16: iteration, max_iterations and completion_promise are read only
\* from the header block, the lines between the first '---' line and the
\* '---' line that closes it: the lines the hook parses for each field
\* are those of the header, and the outcome of the invocation is the one
\* of the same header with any other non-empty body.
C16_FieldsReadFromHeaderOnly ==
    (CalledOnRecord /\ HeaderEnd(last.pre.lines) # 0) =>
        /\ \A key \in {KeyIteration, KeyMaxIterations, KeyCompletionPromise} :
              Grep(Echo(FRONTMATTER(last.pre.lines)), key)
                 = HeaderLines(last.pre.lines, key)
        /\ BodyOf(last.pre.lines) # <<>> =>
              last.res.outcome
                 = Hook(WithBody(last.pre, BodyPlain), last.hookInput, last.fs).outcome


\* the invocation wrote a message of the shell to stderr
ShellError(msg) ==
    \E i \in 1..Len(last.res.stderr) : last.res.stderr[i] = msg

\* C17: every iteration and max_iterations value that passes the
\* all-digits validation is taken as a base-10 number: no all-digits
\* value makes the arithmetic fail, the cap comparison is the one of the
\* decimal values, and a continuation writes the decimal value plus one
\* (on the records whose three fields the hook could read).
C17_DigitsAreBaseTen ==
    LET fm  == FRONTMATTER(last.pre.lines)
        it  == FieldValue(fm, KeyIteration)
        max == FieldValue(fm, KeyMaxIterations)
    IN  (/\ CalledOnRecord
         /\ Grep(Echo(fm), KeyCompletionPromise) # <<>>
         /\ IsDigits(it) /\ IsDigits(max)) =>
           /\ ~ShellError("bash: value too great for base")
           /\ EndedIn("CapReached")
                 <=> (BaseVal(max, 10) > 0 /\ BaseVal(it, 10) >= BaseVal(max, 10))
           /\ EndedIn("Continuing") =>
                 /\ IsNumberField(file.lines, KeyIteration)
                 /\ NumberField(file.lines, KeyIteration) = BaseVal(it, 10) + 1


\* C18: a hook process killed at any point before it exits leaves the
\* state record in its pre-invocation form: neither with an incremented
\* iteration nor deleted (one process at a time).
C18_KillLeavesRecordUntouched ==
    \A p \in Procs :
        (proc[p].pc = "killed" /\ Alone(p)) => file = proc[p].pre

\* C19: deletion is final when two invocations overlap: a step of a hook
\* process never brings back a state record that is absent.
C19_DeletionIsFinal ==
    [][~file.exists => ~file'.exists]_vars

====
